---- MODULE Spec2Model ----
(***************************************************************************)
(* A model of backend/server.py of the AI Stock Market Agent: the          *)
(* rule-based part of analyze_with_groq, the HTTP handlers                  *)
(* (/api/analyze, /api/chat, /api/stock/{symbol}/data,                      *)
(* /api/market/trending), the WebSocket handler /ws/{client_id} and the     *)
(* ConnectionManager.                                                       *)
(*                                                                         *)
(* External collaborators (yfinance, Groq, MongoDB, the WebSocket           *)
(* transport) are modelled by the outcomes their calls can have: a value,   *)
(* an empty value, or a raised exception.                                   *)
(***************************************************************************)
EXTENDS Integers, Sequences, FiniteSets, TLC

VARIABLES
    \* ---- analyze_with_groq, rule part (SpecAnalysis)
    tech_indicators,    \* the latest-bar snapshot: rsi, sma_20, sma_50
    recommendations,    \* the list built at lines 231-238
    risk_level,         \* the label set at lines 241-246
    apc,                \* "input" before the rules ran, "done" after
    \* ---- calculate_rsi (SpecRsi)
    prices,             \* the Close series passed in
    rsi_result,         \* what the call gave: the RSI series, or the error raised
    rpc,                \* "input" before the call, "done" after
    \* ---- HTTP handlers (Spec)
    req,                \* per request: endpoint, position, provider outcomes, response
    db,                 \* the stock_analyses collection, in insertion order
    \* ---- /api/market/trending (SpecTrending)
    tpc,                \* "idle" | "done"
    provider,           \* per configured symbol, what yfinance does for it
    trending_data,      \* the list built by the loop
    trending_status,    \* HTTP status of the response (0: none yet)
    \* ---- WebSocket handler and ConnectionManager (SpecWs, SpecBroadcast)
    active_connections, \* manager.active_connections, a list
    ws,                 \* per socket: handler position, current message, replies
    bc                  \* the broadcast in progress, if any

rsiVars      == <<prices, rsi_result, rpc>>
analysisVars == <<tech_indicators, recommendations, risk_level, apc, rsiVars>>
httpVars     == <<req, db>>
trendVars    == <<tpc, provider, trending_data, trending_status>>
wsVars       == <<active_connections, ws, bc>>
vars         == <<analysisVars, httpVars, trendVars, wsVars>>

Min(a, b) == IF a < b THEN a ELSE b

(***************************************************************************)
(* Optional numbers.  Python's None is <<>>, a float v is <<v>>.            *)
(***************************************************************************)
None      == <<>>
Some(v)   == <<v>>
IsNone(x) == x = None
Val(x)    == x[1]

\* `if x` on an Optional[float]: None and 0.0 are both falsy.
Truthy(x) == ~IsNone(x) /\ Val(x) # 0

(***************************************************************************)
(* Python call results: a returned value or a raised exception.  Every     *)
(* exception class named in this model derives from Exception, which is    *)
(* what `except Exception` tests; HTTPException carries a status code.     *)
(***************************************************************************)
Return(v)         == [ok |-> TRUE,  val |-> <<v>>, exc |-> "",  status |-> 0]
Raise(e, status)  == [ok |-> FALSE, val |-> <<>>,  exc |-> e,   status |-> status]
Value(r)          == r.val[1]

ExceptionClasses ==
    {"HTTPException", "ProviderError", "GroqError", "DbError", "KeyError",
     "TypeError", "JSONDecodeError", "WebSocketDisconnect", "RuntimeError"}

\* try: <body> / except Exception as e: raise HTTPException(status_code=500, ...)
ExceptExceptionRaise500(r) ==
    IF ~r.ok /\ r.exc \in ExceptionClasses THEN Raise("HTTPException", 500) ELSE r

(***************************************************************************)
(* analyze_with_groq, lines 230-246: the rule-based recommendations and    *)
(* the risk level, from the latest bar's indicators.                       *)
(***************************************************************************)
BUY     == "Consider buying - RSI indicates oversold conditions"
SELL    == "Consider selling - RSI indicates overbought conditions"
BULLISH == "Bullish signal - 20-day SMA above 50-day SMA"

RsiHint(ti) ==
    IF Truthy(ti.rsi) /\ Val(ti.rsi) < 30 THEN <<BUY>>
    ELSE IF Truthy(ti.rsi) /\ Val(ti.rsi) > 70 THEN <<SELL>>
    ELSE <<>>

SmaHint(ti) ==
    IF Truthy(ti.sma_20) /\ Truthy(ti.sma_50) /\ Val(ti.sma_20) > Val(ti.sma_50)
    THEN <<BULLISH>>
    ELSE <<>>

Recommendations(ti) == RsiHint(ti) \o SmaHint(ti)

RiskLevel(ti) ==
    IF Truthy(ti.rsi)
    THEN IF Val(ti.rsi) > 80 \/ Val(ti.rsi) < 20 THEN "High"
         ELSE IF 40 <= Val(ti.rsi) /\ Val(ti.rsi) <= 60 THEN "Low"
         ELSE "Medium"
    ELSE "Medium"

\* confidence_score = 85.0
ConfidenceScore == 85

(***************************************************************************)
(* The snapshots a fetched history can end in.  RSI is 100 - 100/(1+rs)    *)
(* with rs >= 0, so it lies in 0..100 when defined (0 when the window held *)
(* no rising day).  Closes are positive, so a defined SMA is positive; a   *)
(* history long enough for SMA_50 is long enough for SMA_20.               *)
(***************************************************************************)
RsiMax   == 100
MaxPrice == 3

Optional(S) == {None} \cup {Some(v) : v \in S}

Snapshots ==
    {ti \in [rsi    : Optional(0..RsiMax),
             sma_20 : Optional(1..MaxPrice),
             sma_50 : Optional(1..MaxPrice)] :
        ~IsNone(ti.sma_50) => ~IsNone(ti.sma_20)}

NoSnapshot == [rsi |-> None, sma_20 |-> None, sma_50 |-> None]

AnalysisIdle ==
    /\ tech_indicators = NoSnapshot
    /\ recommendations = <<>>
    /\ risk_level = ""
    /\ apc = "idle"

AnalysisInit ==
    /\ tech_indicators \in Snapshots
    /\ recommendations = <<>>
    /\ risk_level = ""
    /\ apc = "input"

\* lines 230-246 applied to the snapshot
ApplyRules ==
    /\ apc = "input"
    /\ recommendations' = Recommendations(tech_indicators)
    /\ risk_level' = RiskLevel(tech_indicators)
    /\ apc' = "done"
    /\ UNCHANGED <<tech_indicators, rsiVars, httpVars, trendVars, wsVars>>


(***************************************************************************)
(* What the external collaborators can do for one call.                    *)
(***************************************************************************)
\* yf.Ticker(symbol).history(...): raises, returns an empty frame, or returns
\* bars; a frame of bars is kept as its latest bar's indicator snapshot.
HistRaise   == [kind |-> "raise", latest |-> NoSnapshot]
HistEmpty   == [kind |-> "empty", latest |-> NoSnapshot]
HistBars(s) == [kind |-> "bars",  latest |-> s]

\* The snapshots used where a request carries one: one per branch of the rules.
SampleSnapshots ==
    { [rsi |-> None,     sma_20 |-> None,    sma_50 |-> None],
      [rsi |-> Some(0),  sma_20 |-> Some(1), sma_50 |-> None],
      [rsi |-> Some(50), sma_20 |-> Some(2), sma_50 |-> Some(1)],
      [rsi |-> Some(85), sma_20 |-> Some(1), sma_50 |-> Some(2)] }

HistoryOutcomes == {HistRaise, HistEmpty} \cup {HistBars(s) : s \in SampleSnapshots}

\* yf.Ticker(symbol).news: raises, or is a list of n items (item i is i).
MaxNews == 6
Items(n) == [i \in 1..n |-> i]
NewsRaise    == [kind |-> "raise", items |-> <<>>]
NewsList(n)  == [kind |-> "list",  items |-> Items(n)]
NewsOutcomes == {NewsRaise} \cup {NewsList(n) : n \in 0..MaxNews}

CallOutcomes == {"ok", "raise"}      \* the Groq completion, insert_one

(***************************************************************************)
(* get_stock_data, lines 105-125.  The 404 is raised inside the try block  *)
(* whose `except Exception` handler re-raises everything as a 500.         *)
(***************************************************************************)
get_stock_data_body(hist) ==
    IF hist.kind = "raise" THEN Raise("ProviderError", 0)
    ELSE IF hist.kind = "empty" THEN Raise("HTTPException", 404)
    ELSE Return(hist.latest)

get_stock_data(hist) == ExceptExceptionRaise500(get_stock_data_body(hist))

(***************************************************************************)
(* get_stock_news, lines 152-160: stock.news[:5], and [] on any exception. *)
(***************************************************************************)
Slice(seq, n) == SubSeq(seq, 1, Min(n, Len(seq)))

\* get_stock_news without its try/except
get_stock_news_raising(newsOutcome) ==
    IF newsOutcome.kind = "raise" THEN Raise("ProviderError", 0)
    ELSE Return(Slice(newsOutcome.items, 5))

get_stock_news(newsOutcome) ==
    IF newsOutcome.kind = "raise" THEN Return(<<>>)
    ELSE Return(Slice(newsOutcome.items, 5))

(***************************************************************************)
(* analyze_with_groq, lines 162-261: the prompt takes news[:3]; a failed   *)
(* completion is re-raised as a 500; otherwise the AIAgentResponse.        *)
(***************************************************************************)
AIAgentResponse(ti, news) ==
    [recommendations  |-> Recommendations(ti),
     risk_level       |-> RiskLevel(ti),
     confidence_score |-> ConfidenceScore,
     news_in_prompt   |-> Slice(news, 3)]

analyze_with_groq(data, news, groq) ==
    ExceptExceptionRaise500(
        IF groq = "raise" THEN Raise("GroqError", 0)
        ELSE Return(AIAgentResponse(data, news)))

NoAnalysis == AIAgentResponse(NoSnapshot, <<>>)


(***************************************************************************)
(* The HTTP handlers.  A handler runs without suspension except at          *)
(* `await db.stock_analyses.insert_one(...)`: get_stock_data,               *)
(* get_stock_news and analyze_with_groq contain no await of their own.      *)
(* Two requests are in flight so that the handlers interleave there.        *)
(***************************************************************************)
Requests == {"r1", "r2"}

IdleRequest ==
    [endpoint |-> "none", pc |-> "idle",
     hist |-> HistRaise, newsOutcome |-> NewsRaise, groq |-> "raise",
     news |-> <<>>, analysis |-> NoAnalysis, status |-> 0, calls |-> <<>>]

HttpInit ==
    /\ req = [r \in Requests |-> IdleRequest]
    /\ db = <<>>

\* FastAPI's response status: 200 for a returned value, the HTTPException's
\* status_code otherwise.
ResponseStatus(result) == IF result.ok THEN 200 ELSE result.status

\* lines 273-284 and 306-312: data, then news, then the analysis; the first
\* call that raises ends the try block.
Pipeline(hist, newsOutcome, groq) ==
    LET data == get_stock_data(hist)
        news == get_stock_news(newsOutcome)
    IN  IF ~data.ok
        THEN [result |-> data, news |-> <<>>, calls |-> <<"get_stock_data">>]
        ELSE IF ~news.ok
        THEN [result |-> news, news |-> <<>>,
              calls |-> <<"get_stock_data", "get_stock_news">>]
        ELSE [result |-> analyze_with_groq(Value(data), Value(news), groq),
              news   |-> Value(news),
              calls  |-> <<"get_stock_data", "get_stock_news", "analyze_with_groq">>]

\* a store that writes the document twice
InsertOneTwice(coll, doc) == Append(Append(coll, doc), doc)
\* db.stock_analyses.insert_one(analysis_doc)
InsertOne(coll, doc) == Append(coll, doc)

\* POST /api/analyze, lines 268-284: up to the await of insert_one.
analyze_stock(r, hist, newsOutcome, groq) ==
    /\ req[r].pc = "idle"
    /\ LET p   == Pipeline(hist, newsOutcome, groq)
           res == ExceptExceptionRaise500(p.result)
           rec == [req[r] EXCEPT !.endpoint = "analyze", !.hist = hist,
                                 !.newsOutcome = newsOutcome, !.groq = groq,
                                 !.news = p.news, !.calls = p.calls]
       IN  req' = [req EXCEPT ![r] =
                IF res.ok
                THEN [rec EXCEPT !.pc = "insert", !.analysis = Value(res)]
                ELSE [rec EXCEPT !.pc = "done", !.status = ResponseStatus(res)]]
    /\ UNCHANGED <<db, analysisVars, trendVars, wsVars>>

\* POST /api/analyze, lines 286-299: insert_one completes, or raises.
analyze_stock_insert(r, outcome) ==
    /\ req[r].pc = "insert"
    /\ LET doc == [req |-> r, analysis |-> req[r].analysis]
           res == ExceptExceptionRaise500(
                      IF outcome = "raise" THEN Raise("DbError", 0)
                      ELSE Return(req[r].analysis))
       IN  /\ db' = IF outcome = "raise" THEN db ELSE InsertOne(db, doc)
           /\ req' = [req EXCEPT ![r].pc = "done",
                                 ![r].status = ResponseStatus(res),
                                 ![r].calls = Append(@, "insert_one")]
    /\ UNCHANGED <<analysisVars, trendVars, wsVars>>

\* POST /api/chat, lines 301-318: the same pipeline, and no store.
chat_with_agent(r, hist, newsOutcome, groq) ==
    /\ req[r].pc = "idle"
    /\ LET p   == Pipeline(hist, newsOutcome, groq)
           res == ExceptExceptionRaise500(p.result)
       IN  req' = [req EXCEPT ![r] =
                [@ EXCEPT !.endpoint = "chat", !.pc = "done", !.hist = hist,
                          !.newsOutcome = newsOutcome, !.groq = groq,
                          !.news = p.news, !.calls = p.calls,
                          !.analysis = IF res.ok THEN Value(res) ELSE NoAnalysis,
                          !.status = ResponseStatus(res)]]
    /\ UNCHANGED <<db, analysisVars, trendVars, wsVars>>

\* GET /api/stock/{symbol}/data, lines 320-345.
get_stock_chart_data(r, hist) ==
    /\ req[r].pc = "idle"
    /\ LET res == ExceptExceptionRaise500(get_stock_data(hist))
       IN  req' = [req EXCEPT ![r] =
                [@ EXCEPT !.endpoint = "chart", !.pc = "done", !.hist = hist,
                          !.calls = <<"get_stock_data">>,
                          !.status = ResponseStatus(res)]]
    /\ UNCHANGED <<db, analysisVars, trendVars, wsVars>>


(***************************************************************************)
(* GET /api/market/trending, lines 347-377.  The loop holds no await, so   *)
(* the handler is one step.  For one symbol yfinance either raises on      *)
(* stock.info, raises on stock.history, returns an empty frame, or returns *)
(* bars.                                                                   *)
(***************************************************************************)
trending_symbols == <<"AAPL", "GOOGL", "MSFT", "TSLA", "AMZN", "NVDA">>

Range(seq) == {seq[i] : i \in DOMAIN seq}

SymbolOutcomes == {"info_raises", "history_raises", "empty", "bars"}

TrendingEntry(symbol) == [symbol |-> symbol]

\* lines 357-368: the body of the inner try, for one symbol
trending_symbol_body(acc, symbol, outcome) ==
    IF outcome \in {"info_raises", "history_raises"} THEN Raise("ProviderError", 0)
    ELSE IF outcome = "bars" THEN Return(Append(acc, TrendingEntry(symbol)))
    ELSE Return(acc)

\* the inner try without its handler
trending_symbol_uncaught(acc, symbol, outcome) ==
    trending_symbol_body(acc, symbol, outcome)

\* lines 356-371: except Exception: log and continue
trending_symbol(acc, symbol, outcome) ==
    LET r == trending_symbol_body(acc, symbol, outcome)
    IN  IF ~r.ok /\ r.exc \in ExceptionClasses THEN Return(acc) ELSE r

\* lines 355-371: for symbol in trending_symbols
RECURSIVE trending_loop(_, _, _)
trending_loop(i, acc, prov) ==
    IF i > Len(trending_symbols) THEN Return(acc)
    ELSE LET r == trending_symbol(acc, trending_symbols[i], prov[trending_symbols[i]])
         IN  IF r.ok THEN trending_loop(i + 1, Value(r), prov) ELSE r

TrendInit ==
    /\ tpc = "idle"
    /\ provider = [s \in Range(trending_symbols) |-> "bars"]
    /\ trending_data = <<>>
    /\ trending_status = 0

get_trending_stocks(prov) ==
    /\ tpc = "idle"
    /\ LET res == ExceptExceptionRaise500(trending_loop(1, <<>>, prov))
       IN  /\ trending_data' = IF res.ok THEN Value(res) ELSE <<>>
           /\ trending_status' = ResponseStatus(res)
    /\ provider' = prov
    /\ tpc' = "done"
    /\ UNCHANGED <<analysisVars, httpVars, wsVars>>


(***************************************************************************)
(* ConnectionManager, lines 59-78, and websocket_endpoint, lines 379-405.  *)
(* The handler suspends at accept, at receive_text and at the send_text of *)
(* send_personal_message; get_stock_data holds no await.                   *)
(***************************************************************************)
WsClients == {"w1", "w2"}
Sockets   == WsClients \cup {"w3"}
WsSymbols == {"AAPL", "TSLA"}

NoMsg        == [kind |-> "none", symbol |-> ""]
Subscribe(s) == [kind |-> "stock_subscribe", symbol |-> s]
\* a JSON object with another "type"; a JSON object without "type"; not JSON
OtherMsg     == [kind |-> "other", symbol |-> ""]
TypelessMsg  == [kind |-> "no_type", symbol |-> ""]
MalformedMsg == [kind |-> "malformed", symbol |-> ""]
\* receive_text raised WebSocketDisconnect instead of returning a frame
Disconnected == [kind |-> "disconnect", symbol |-> ""]
Messages     == {OtherMsg, TypelessMsg, MalformedMsg} \cup {Subscribe(s) : s \in WsSymbols}

StockUpdate(s) == [type |-> "stock_update", symbol |-> s]
NoReply        == [type |-> "none", symbol |-> ""]

\* websocket.receive_text(): a text frame, or WebSocketDisconnect
ReceiveOutcomes == {Raise("WebSocketDisconnect", 0)} \cup {Return(m) : m \in Messages}
\* websocket.send_text(): sent, or one of the errors the transport raises
SendOutcomes    == {"ok", "WebSocketDisconnect", "RuntimeError"}
WsHistory       == {HistRaise, HistEmpty, HistBars(NoSnapshot)}

send_text(outcome) == IF outcome = "ok" THEN Return("sent") ELSE Raise(outcome, 0)

\* a unicast send that swallows the failure of send_text
send_personal_message_swallowing(outcome) ==
    LET r == send_text(outcome) IN IF r.ok THEN r ELSE Return("swallowed")
\* lines 70-71: await websocket.send_text(message), nothing around it
send_personal_message(outcome) == send_text(outcome)

\* the send of broadcast without its try/except
broadcast_send_uncaught(outcome) == send_text(outcome)
\* lines 75-78: try: await connection.send_text(message) / except: pass
broadcast_send_text(outcome) ==
    LET r == send_text(outcome) IN IF r.ok THEN r ELSE Return("pass")

\* a handler that rejects the message types it does not know
handle_message_strict(msg, hist) ==
    IF msg.kind = "stock_subscribe"
    THEN LET data == get_stock_data(hist)
         IN  IF data.ok THEN Return(<<StockUpdate(msg.symbol)>>) ELSE data
    ELSE Raise("KeyError", 0)

\* a handler that answers every subscription for one fixed symbol
handle_message_fixed_symbol(msg, hist) ==
    IF msg.kind = "malformed" THEN Raise("JSONDecodeError", 0)
    ELSE IF msg.kind = "no_type" THEN Raise("KeyError", 0)
    ELSE IF msg.kind = "stock_subscribe"
    THEN LET data == get_stock_data(hist)
         IN  IF data.ok THEN Return(<<StockUpdate("AAPL")>>) ELSE data
    ELSE Return(<<>>)

\* lines 386-400: one turn of the loop up to the send; the value is the list
\* of replies to send (none, or one stock_update)
handle_message(msg, hist) ==
    IF msg.kind = "malformed" THEN Raise("JSONDecodeError", 0)
    ELSE IF msg.kind = "no_type" THEN Raise("KeyError", 0)
    ELSE IF msg.kind = "stock_subscribe"
    THEN LET data == get_stock_data(hist)
         IN  IF data.ok THEN Return(<<StockUpdate(msg.symbol)>>) ELSE data
    ELSE Return(<<>>)

\* list.remove(x): the first occurrence
RECURSIVE Remove(_, _)
Remove(seq, x) ==
    IF seq = <<>> THEN <<>>
    ELSE IF Head(seq) = x THEN Tail(seq)
    ELSE <<Head(seq)>> \o Remove(Tail(seq), x)

NewSocket ==
    [pc |-> "new", msg |-> NoMsg, prev |-> NoMsg, pending |-> NoReply,
     out |-> <<>>, sendOutcome |-> "", error |-> ""]

NoBroadcast ==
    [pc |-> "idle", idx |-> 1, conn |-> "", start |-> <<>>,
     attempts  |-> [c \in Sockets |-> 0],
     delivered |-> [c \in Sockets |-> 0],
     raised    |-> {},
     result    |-> ""]

WsInit ==
    /\ active_connections = <<>>
    /\ ws = [c \in Sockets |-> NewSocket]
    /\ bc = NoBroadcast

\* lines 404-405 and the end of the coroutine: WebSocketDisconnect is caught
\* and the socket deregistered; any other exception leaves the handler as is.
HandlerExit(c, sock, exc) ==
    /\ ws' = [ws EXCEPT ![c] =
                [sock EXCEPT !.pc = IF exc = "WebSocketDisconnect" THEN "closed" ELSE "failed",
                             !.error = exc]]
    /\ active_connections' =
           IF exc = "WebSocketDisconnect" THEN Remove(active_connections, c)
           ELSE active_connections

\* line 382, manager.connect: accept, then append
connect(c, accept) ==
    /\ ws[c].pc = "new"
    /\ IF accept = "ok"
       THEN /\ active_connections' = Append(active_connections, c)
            /\ ws' = [ws EXCEPT ![c].pc = "receive"]
       ELSE /\ active_connections' = active_connections
            /\ ws' = [ws EXCEPT ![c].pc = "failed", ![c].error = "RuntimeError"]
    /\ UNCHANGED <<bc, analysisVars, httpVars, trendVars>>

\* lines 385-400: receive_text returns or raises, and the turn runs up to
\* the next suspension
receive(c, rx, hist) ==
    /\ ws[c].pc = "receive"
    /\ LET res  == IF rx.ok THEN handle_message(Value(rx), hist) ELSE rx
           sock == IF rx.ok
                   THEN [ws[c] EXCEPT !.msg = Value(rx), !.prev = ws[c].msg,
                                      !.out = <<>>, !.pending = NoReply,
                                      !.sendOutcome = ""]
                   ELSE [ws[c] EXCEPT !.msg = Disconnected, !.prev = ws[c].msg]
       IN  IF ~res.ok
           THEN HandlerExit(c, sock, res.exc)
           ELSE /\ ws' = [ws EXCEPT ![c] =
                        IF Value(res) = <<>> THEN sock
                        ELSE [sock EXCEPT !.pc = "send", !.pending = Value(res)[1]]]
                /\ active_connections' = active_connections
    /\ UNCHANGED <<bc, analysisVars, httpVars, trendVars>>

\* line 402: the send of the reply completes or raises
send_reply(c, outcome) ==
    /\ ws[c].pc = "send"
    /\ LET res  == send_personal_message(outcome)
           sock == [ws[c] EXCEPT !.sendOutcome = outcome,
                                 !.out = IF outcome = "ok" THEN Append(@, ws[c].pending) ELSE @,
                                 !.pending = NoReply]
       IN  IF ~res.ok
           THEN HandlerExit(c, sock, res.exc)
           ELSE /\ ws' = [ws EXCEPT ![c] = [sock EXCEPT !.pc = "receive"]]
                /\ active_connections' = active_connections
    /\ UNCHANGED <<bc, analysisVars, httpVars, trendVars>>

\* line 74: the list iterator's next(): the item at the index, or the end
broadcast_next(b, registry) ==
    IF b.idx <= Len(registry)
    THEN [b EXCEPT !.pc = "send", !.conn = registry[b.idx], !.idx = b.idx + 1]
    ELSE [b EXCEPT !.pc = "done", !.conn = "", !.result = "returned"]

\* lines 73-76: broadcast is called and runs to its first send
broadcast ==
    /\ bc.pc = "idle"
    /\ bc' = broadcast_next([bc EXCEPT !.start = active_connections], active_connections)
    /\ UNCHANGED <<active_connections, ws, analysisVars, httpVars, trendVars>>

\* lines 76-78, then line 74 again: the send completes or raises
broadcast_send(outcome) ==
    /\ bc.pc = "send"
    /\ LET res == broadcast_send_text(outcome)
           b   == [bc EXCEPT !.attempts[bc.conn] = @ + 1,
                             !.delivered[bc.conn] = IF outcome = "ok" THEN @ + 1 ELSE @,
                             !.raised = IF outcome = "ok" THEN @ ELSE @ \cup {bc.conn}]
       IN  bc' = IF res.ok THEN broadcast_next(b, active_connections)
                 ELSE [b EXCEPT !.pc = "done", !.conn = "", !.result = "raised"]
    /\ UNCHANGED <<active_connections, ws, analysisVars, httpVars, trendVars>>

(***************************************************************************)
(* calculate_rsi, lines 127-134.  The series are float64: a value is NaN,  *)
(* an infinity, or a number, kept here as an exact fraction n/d in lowest  *)
(* terms.  Arithmetic on a Series never raises: x/0 is NaN for x = 0 and   *)
(* an infinity otherwise, and NaN propagates.                              *)
(***************************************************************************)
RECURSIVE GCD(_, _)
GCD(a, b) == IF b = 0 THEN a ELSE GCD(b, a % b)
Abs(a)    == IF a < 0 THEN -a ELSE a

NaN    == [k |-> "nan",  n |-> 0, d |-> 1]
PosInf == [k |-> "inf",  n |-> 0, d |-> 1]
NegInf == [k |-> "-inf", n |-> 0, d |-> 1]
Num(n, d) ==
    LET g == GCD(Abs(n), d) IN [k |-> "num", n |-> n \div g, d |-> d \div g]
Float(i)  == Num(i, 1)

IsNaN(x)    == x.k = "nan"
IsFinite(x) == x.k = "num"

FloatNeg(x) ==
    IF IsFinite(x) THEN Num(-x.n, x.d)
    ELSE IF x = PosInf THEN NegInf
    ELSE IF x = NegInf THEN PosInf
    ELSE NaN

FloatAdd(x, y) ==
    IF IsNaN(x) \/ IsNaN(y) THEN NaN
    ELSE IF IsFinite(x) /\ IsFinite(y) THEN Num(x.n * y.d + y.n * x.d, x.d * y.d)
    ELSE IF IsFinite(x) THEN y
    ELSE IF IsFinite(y) \/ x = y THEN x
    ELSE NaN

FloatSub(x, y) == FloatAdd(x, FloatNeg(y))

\* a division in which a zero divisor gives NaN whatever the dividend
FloatDivZeroIsNaN(x, y) ==
    IF IsNaN(x) \/ IsNaN(y) THEN Return(NaN)
    ELSE IF IsFinite(y) /\ y.n = 0 THEN Return(NaN)
    ELSE IF IsFinite(x) /\ IsFinite(y)
    THEN Return(IF y.n > 0 THEN Num(x.n * y.d, x.d * y.n) ELSE Num(-(x.n * y.d), x.d * (-y.n)))
    ELSE IF IsFinite(x) THEN Return(Float(0))
    ELSE IF IsFinite(y) THEN Return(IF y.n > 0 THEN x ELSE FloatNeg(x))
    ELSE Return(NaN)

\* Series / Series, element by element; the value is returned, never raised
FloatDiv(x, y) ==
    IF IsNaN(x) \/ IsNaN(y) THEN Return(NaN)
    ELSE IF IsFinite(y) /\ y.n = 0
    THEN Return(IF ~IsFinite(x) THEN x
                ELSE IF x.n = 0 THEN NaN
                ELSE IF x.n > 0 THEN PosInf ELSE NegInf)
    ELSE IF IsFinite(x) /\ IsFinite(y)
    THEN Return(IF y.n > 0 THEN Num(x.n * y.d, x.d * y.n) ELSE Num(-(x.n * y.d), x.d * (-y.n)))
    ELSE IF IsFinite(x) THEN Return(Float(0))
    ELSE IF IsFinite(y) THEN Return(IF y.n > 0 THEN x ELSE FloatNeg(x))
    ELSE Return(NaN)

\* line 129, prices.diff(): NaN for the first bar
Diff(p) == [i \in DOMAIN p |-> IF i = 1 THEN NaN ELSE Float(p[i] - p[i - 1])]

\* line 130, delta.where(delta > 0, 0): NaN > 0 is false, so the first bar is 0
GainTerms(delta) ==
    [i \in DOMAIN delta |->
        IF IsFinite(delta[i]) /\ delta[i].n > 0 THEN delta[i] ELSE Float(0)]

\* line 131, -delta.where(delta < 0, 0)
LossTerms(delta) ==
    [i \in DOMAIN delta |->
        FloatNeg(IF IsFinite(delta[i]) /\ delta[i].n < 0 THEN delta[i] ELSE Float(0))]

RECURSIVE FloatSum(_, _, _)
FloatSum(x, from, to) ==
    IF from > to THEN Float(0) ELSE FloatAdd(x[from], FloatSum(x, from + 1, to))

\* rolling(window=window).mean(): NaN until the window is full
RollingMean(x, window) ==
    [i \in DOMAIN x |->
        IF i < window THEN NaN
        ELSE Value(FloatDiv(FloatSum(x, i - window + 1, i), Float(window)))]

\* lines 132-133 for one bar: rs = gain / loss; rsi = 100 - (100 / (1 + rs))
RsiOfBar(gain, loss) ==
    LET rs == FloatDiv(gain, loss)
    IN  IF ~rs.ok THEN rs
        ELSE LET q == FloatDiv(Float(100), FloatAdd(Float(1), Value(rs)))
             IN  IF ~q.ok THEN q ELSE Return(FloatSub(Float(100), Value(q)))

\* calculate_rsi(prices, window): the RSI series, or the error of the first
\* bar whose arithmetic raised
calculate_rsi(p, window) ==
    LET delta == Diff(p)
        gain  == RollingMean(GainTerms(delta), window)
        loss  == RollingMean(LossTerms(delta), window)
        bars  == [i \in DOMAIN p |-> RsiOfBar(gain[i], loss[i])]
        bad   == {i \in DOMAIN p : ~bars[i].ok}
    IN  IF bad = {} THEN Return([i \in DOMAIN p |-> Value(bars[i])])
        ELSE bars[CHOOSE i \in bad : \A j \in bad : i <= j]

\* The model runs calculate_rsi at a short window (the code's default is 14)
\* on every Close series of up to MaxBars bars.
RsiWindow == 3
MaxBars   == 5

PriceSeries == UNION {[1..n -> 1..MaxPrice] : n \in 1..MaxBars}

RsiIdle ==
    /\ prices = <<>>
    /\ rsi_result = Return(<<>>)
    /\ rpc = "idle"

RsiInit ==
    /\ prices \in PriceSeries
    /\ rsi_result = Return(<<>>)
    /\ rpc = "input"

\* line 118: data['RSI'] = calculate_rsi(data['Close'])
CalculateRsi ==
    /\ rpc = "input"
    /\ rsi_result' = calculate_rsi(prices, RsiWindow)
    /\ rpc' = "done"
    /\ UNCHANGED <<prices, tech_indicators, recommendations, risk_level, apc,
                   httpVars, trendVars, wsVars>>

(***************************************************************************)
(* The specifications.                                                     *)
(***************************************************************************)
\* the rules of analyze_with_groq on every snapshot
InitAnalysis == AnalysisInit /\ RsiIdle /\ HttpInit /\ TrendInit /\ WsInit
NextAnalysis == ApplyRules
SpecAnalysis == InitAnalysis /\ [][NextAnalysis]_vars

\* the HTTP handlers of /api/analyze, /api/chat and /api/stock/{symbol}/data
Init == AnalysisIdle /\ RsiIdle /\ HttpInit /\ TrendInit /\ WsInit
Next ==
    \/ \E r \in Requests, h \in HistoryOutcomes, n \in NewsOutcomes, g \in CallOutcomes :
           analyze_stock(r, h, n, g)
    \/ \E r \in Requests, o \in CallOutcomes : analyze_stock_insert(r, o)
    \/ \E r \in Requests, h \in HistoryOutcomes, n \in NewsOutcomes, g \in CallOutcomes :
           chat_with_agent(r, h, n, g)
    \/ \E r \in Requests, h \in HistoryOutcomes : get_stock_chart_data(r, h)
Spec == Init /\ [][Next]_vars

\* calculate_rsi on every short Close series
InitRsi == AnalysisIdle /\ RsiInit /\ HttpInit /\ TrendInit /\ WsInit
NextRsi == CalculateRsi
SpecRsi == InitRsi /\ [][NextRsi]_vars

\* /api/market/trending
NextTrending == \E prov \in [Range(trending_symbols) -> SymbolOutcomes] : get_trending_stocks(prov)
SpecTrending == Init /\ [][NextTrending]_vars

\* the WebSocket handler, two clients
NextWs ==
    \/ \E c \in WsClients, a \in CallOutcomes : connect(c, a)
    \/ \E c \in WsClients, rx \in ReceiveOutcomes, h \in WsHistory : receive(c, rx, h)
    \/ \E c \in WsClients, o \in SendOutcomes : send_reply(c, o)
SpecWs == Init /\ [][NextWs]_vars

\* a broadcast among connecting and disconnecting sockets
NextBroadcast ==
    \/ \E c \in Sockets, a \in CallOutcomes : connect(c, a)
    \/ \E c \in Sockets : receive(c, Raise("WebSocketDisconnect", 0), HistRaise)
    \/ broadcast
    \/ \E o \in SendOutcomes : broadcast_send(o)
SpecBroadcast == Init /\ [][NextBroadcast]_vars


(***************************************************************************)
(* The claims.                                                             *)
(***************************************************************************)

\* C1 (as stated): a chart request whose provider returned an empty series is
\* answered with status 404, get_stock_data having failed with a 404.
C1_EmptySeriesGives404 ==
    \A r \in Requests :
        (req[r].endpoint = "chart" /\ req[r].pc = "done" /\ req[r].hist.kind = "empty")
            => /\ get_stock_data(req[r].hist).status = 404
               /\ req[r].status = 404

\* the risk level the claim gives for an RSI
ClaimedRisk(rsi) ==
    IF ~IsNone(rsi) /\ (Val(rsi) > 80 \/ Val(rsi) < 20) THEN "High"
    ELSE IF ~IsNone(rsi) /\ 40 <= Val(rsi) /\ Val(rsi) <= 60 THEN "Low"
    ELSE "Medium"

\* C2 (as stated): for every latest-bar RSI the risk level is High when RSI > 80
\* or RSI < 20, Low when 40 <= RSI <= 60, Medium otherwise (absent RSI
\* included), and is one of Low, Medium, High.
C2_RiskLevelByRsi ==
    apc = "done" =>
        /\ risk_level = ClaimedRisk(tech_indicators.rsi)
        /\ risk_level \in {"Low", "Medium", "High"}

\* C3 (as stated): the list holds the buy hint exactly when RSI < 30, the sell
\* hint exactly when RSI > 70, the bullish hint exactly when SMA20 > SMA50 with
\* both present, and nothing else.
C3_HintsExactlyWhenRulesFire ==
    apc = "done" =>
        LET ti == tech_indicators
            hints == Range(recommendations)
        IN  /\ (BUY \in hints) <=> (~IsNone(ti.rsi) /\ Val(ti.rsi) < 30)
            /\ (SELL \in hints) <=> (~IsNone(ti.rsi) /\ Val(ti.rsi) > 70)
            /\ (BULLISH \in hints) <=>
                   (~IsNone(ti.sma_20) /\ ~IsNone(ti.sma_50) /\ Val(ti.sma_20) > Val(ti.sma_50))
            /\ hints \subseteq {BUY, SELL, BULLISH}
            /\ Len(recommendations) = Cardinality(hints)

\* the configured symbols for which both provider calls returned, with bars
Succeeded(s) == provider[s] = "bars"

\* C4: the trending response is a success holding, in configured order, one
\* entry for every symbol whose provider calls succeeded with a non-empty
\* history: 5 entries when one of the 6 fails; a failing symbol never fails
\* the request.
C4_TrendingSkipsFailedSymbols ==
    tpc = "done" =>
        LET kept == SelectSeq(trending_symbols, Succeeded)
        IN  /\ trending_status = 200
            /\ trending_data = [i \in 1..Len(kept) |-> TrendingEntry(kept[i])]
            /\ (Cardinality({s \in Range(trending_symbols) : ~Succeeded(s)}) = 1
                    => Len(trending_data) = 5)

\* one of the 6 symbols raises, the other 5 are in the response
C4_Witness ==
    /\ tpc = "done"
    /\ Len(trending_symbols) = 6
    /\ Cardinality({s \in Range(trending_symbols) : provider[s] = "history_raises"}) = 1
    /\ Cardinality({s \in Range(trending_symbols) : Succeeded(s)}) = 5
    /\ Len(trending_data) = 5
    /\ trending_status = 200


Registered(c) == c \in Range(active_connections)
SendFailed(c) == ws[c].sendOutcome \in SendOutcomes \ {"ok"}

\* C5 (as stated): after a failed send of a stock_update reply no error has
\* reached the handler, which keeps running.
C5_FailedSendSwallowed ==
    \A c \in Sockets :
        SendFailed(c) => (ws[c].pc \in {"receive", "send"} /\ ws[c].error = "")

\* C5 (amended): a failed send of a stock_update reply propagates out of
\* send_personal_message into the handler, which ends with that error; the
\* reply is not delivered, and the socket is deregistered only when the error
\* is WebSocketDisconnect.
C5_FailedSendEndsHandler ==
    \A c \in Sockets :
        SendFailed(c) =>
            /\ ws[c].error = ws[c].sendOutcome
            /\ ws[c].pc = IF ws[c].error = "WebSocketDisconnect" THEN "closed" ELSE "failed"
            /\ ws[c].out = <<>>
            /\ Registered(c) <=> (ws[c].error # "WebSocketDisconnect")

\* a send failed with each kind of error, and each handler has ended
C5_Witness ==
    /\ ws["w1"].msg.kind = "stock_subscribe"
    /\ ws["w1"].sendOutcome = "RuntimeError" /\ ws["w1"].pc = "failed"
    /\ ws["w2"].sendOutcome = "WebSocketDisconnect" /\ ws["w2"].pc = "closed"

\* C6: broadcast never raises; when it has returned over a registry that is
\* the one it started with, every registered connection was sent to exactly
\* once, and each one whose send did not raise received the message exactly
\* once, whichever sends raised.
C6_BroadcastSwallowsSendFailures ==
    /\ bc.result # "raised"
    /\ (bc.pc = "done" /\ bc.start = active_connections) =>
           /\ bc.result = "returned"
           /\ \A c \in Range(bc.start) :
                  /\ bc.attempts[c] = 1
                  /\ bc.delivered[c] = IF c \in bc.raised THEN 0 ELSE 1

\* 3 registered connections, the first one raised, the other 2 received once
C6_Witness ==
    /\ bc.pc = "done" /\ bc.result = "returned"
    /\ Len(bc.start) = 3 /\ bc.start = active_connections
    /\ bc.raised = {bc.start[1]}
    /\ bc.delivered[bc.start[1]] = 0
    /\ bc.delivered[bc.start[2]] = 1
    /\ bc.delivered[bc.start[3]] = 1

\* C7: a message with a type other than "stock_subscribe" gets no reply and
\* raises nothing; the session stays registered and the handler is back at
\* receive_text for the next message.
C7_OtherTypeIgnored ==
    \A c \in Sockets :
        ws[c].msg = OtherMsg =>
            /\ ws[c].pc = "receive"
            /\ ws[c].out = <<>>
            /\ ws[c].pending = NoReply
            /\ ws[c].error = ""
            /\ Registered(c)

\* after an ignored message the next one, a subscription, was answered
C7_Witness ==
    \E c \in WsClients :
        /\ ws[c].prev = OtherMsg
        /\ ws[c].msg.kind = "stock_subscribe"
        /\ ws[c].pc = "receive"
        /\ ws[c].out = <<StockUpdate(ws[c].msg.symbol)>>

\* C8 (as stated): every received stock_subscribe message is answered with
\* exactly one stock_update carrying its symbol, and the connection is then
\* still open.
C8_EverySubscribeAnswered ==
    \A c \in Sockets :
        (ws[c].msg.kind = "stock_subscribe" /\ ws[c].pc # "send") =>
            /\ ws[c].out = <<StockUpdate(ws[c].msg.symbol)>>
            /\ ws[c].pc = "receive"
            /\ Registered(c)

\* C8 (amended): a stock_subscribe message whose history fetch and whose send
\* both succeed is answered, whatever came before it, with exactly one
\* stock_update carrying its symbol, and the handler is back at receive_text
\* on a registered socket; when the fetch fails (get_stock_data raises) or the
\* send fails, nothing is delivered and the handler has ended.
C8_SubscribeAnsweredWhenFetchAndSendSucceed ==
    \A c \in Sockets :
        ws[c].msg.kind = "stock_subscribe" =>
            IF ws[c].pc = "send"
            THEN ws[c].out = <<>> /\ ws[c].pending = StockUpdate(ws[c].msg.symbol)
            ELSE IF ws[c].error = "" /\ ws[c].sendOutcome = "ok"
            THEN /\ ws[c].out = <<StockUpdate(ws[c].msg.symbol)>>
                 /\ ws[c].pc = "receive"
                 /\ Registered(c)
            ELSE /\ ws[c].out = <<>>
                 /\ ws[c].pc \in {"closed", "failed"}
                 /\ ws[c].error = IF SendFailed(c) THEN ws[c].sendOutcome ELSE "HTTPException"

\* a second subscription, for another symbol than the first, answered with
\* its own symbol
C8_Witness ==
    \E c \in WsClients :
        /\ ws[c].prev = Subscribe("AAPL")
        /\ ws[c].msg = Subscribe("TSLA")
        /\ ws[c].pc = "receive"
        /\ ws[c].out = <<StockUpdate("TSLA")>>

Called(r, f) == f \in Range(req[r].calls)

\* C9: get_stock_news returns at most 5 items, and [] when the provider
\* raises; an analyze or chat request whose news fetch failed went on to
\* analyze_with_groq and, if it failed, failed on the completion or the store.
C9_NewsFailureDegrades ==
    \A r \in Requests :
        Called(r, "get_stock_news") =>
            /\ Len(req[r].news) <= 5
            /\ req[r].news = SubSeq(req[r].newsOutcome.items, 1, Len(req[r].news))
            /\ (Len(req[r].news) < 5 => req[r].news = req[r].newsOutcome.items)
            /\ req[r].newsOutcome.kind = "raise" =>
                   /\ req[r].news = <<>>
                   /\ Called(r, "analyze_with_groq")
                   /\ (req[r].status = 500 =>
                          (req[r].groq = "raise" \/ Called(r, "insert_one")))

\* the news provider raised and both an analyze and a chat request succeeded
C9_Witness ==
    \E r, q \in Requests :
        /\ req[r].endpoint = "analyze" /\ req[q].endpoint = "chat"
        /\ req[r].newsOutcome.kind = "raise" /\ req[q].newsOutcome.kind = "raise"
        /\ req[r].status = 200 /\ req[q].status = 200
        /\ req[r].news = <<>> /\ req[q].news = <<>>

\* the documents a request has written
WritesOf(r) == {i \in DOMAIN db : db[i].req = r}

\* C10 (as stated): every analyze or chat request that returned an
\* AnalysisResult has written it exactly once.
C10_EveryResultPersistedOnce ==
    \A r \in Requests :
        (req[r].endpoint \in {"analyze", "chat"} /\ req[r].status = 200)
            => Cardinality(WritesOf(r)) = 1

\* C10 (amended): an analyze request that returned an AnalysisResult has
\* written exactly that result, once, after analyze_with_groq assembled it; a
\* chat request writes nothing; no request writes more than one document.
C10_AnalyzePersistsOnceChatNever ==
    \A r \in Requests :
        /\ Cardinality(WritesOf(r)) <= 1
        /\ (req[r].endpoint = "analyze" /\ req[r].status = 200) =>
               /\ \E i \in DOMAIN db : db[i] = [req |-> r, analysis |-> req[r].analysis]
               /\ Cardinality(WritesOf(r)) = 1
               /\ req[r].calls =
                      <<"get_stock_data", "get_stock_news", "analyze_with_groq", "insert_one">>
        /\ req[r].endpoint # "analyze" => WritesOf(r) = {}
        /\ WritesOf(r) # {} => req[r].status = 200

\* an analyze request stored its result and a chat request returned one unstored
C10_Witness ==
    \E r, q \in Requests :
        /\ req[r].endpoint = "analyze" /\ req[r].status = 200
        /\ req[q].endpoint = "chat" /\ req[q].status = 200
        /\ Cardinality(WritesOf(r)) = 1 /\ WritesOf(q) = {}
        /\ Len(db) = 1


\* the rise and the fall of the close at bar j (the first bar has neither)
Rise(j) == IF j > 1 /\ prices[j] > prices[j - 1] THEN prices[j] - prices[j - 1] ELSE 0
Fall(j) == IF j > 1 /\ prices[j] < prices[j - 1] THEN prices[j - 1] - prices[j] ELSE 0

\* the bars whose trailing window is full, and the bars of bar i's window
FullBars     == {i \in DOMAIN prices : i >= RsiWindow}
WindowOf(i)  == (i - RsiWindow + 1)..i
ZeroLoss(i)  == \A j \in WindowOf(i) : Fall(j) = 0
SomeGain(i)  == \E j \in WindowOf(i) : Rise(j) > 0
RsiAt(i)     == Value(rsi_result)[i]

\* C11 (as stated): calculate_rsi raises nothing and gives an undefined RSI
\* for every bar whose trailing-window average loss is zero, whatever the
\* average gain.
C11_ZeroLossIsUndefined ==
    rpc = "done" =>
        /\ rsi_result.ok
        /\ \A i \in FullBars : ZeroLoss(i) => IsNaN(RsiAt(i))

\* C11 (amended): calculate_rsi raises nothing; for a bar whose trailing-window
\* average loss is zero the RSI is 100 when the average gain is positive (a
\* window with a rising close and no falling one) and undefined only when the
\* average gain is zero too (a flat window).
C11_ZeroLossIs100UnlessFlat ==
    rpc = "done" =>
        /\ rsi_result.ok
        /\ \A i \in FullBars :
               ZeroLoss(i) => RsiAt(i) = IF SomeGain(i) THEN Float(100) ELSE NaN

\* one series with a rising, loss-free window (RSI 100) and a flat one (NaN)
C11_Witness ==
    /\ rpc = "done"
    /\ \E i \in FullBars : ZeroLoss(i) /\ SomeGain(i) /\ RsiAt(i) = Float(100)
    /\ \E i \in FullBars : ZeroLoss(i) /\ ~SomeGain(i) /\ IsNaN(RsiAt(i))


\* the sessions whose handler has not ended: waiting in receive_text or in send_text
Running(c) == ws[c].pc \in {"receive", "send"}

\* C12 (as stated): the registry holds exactly the sockets whose handler is
\* still running; a socket whose handler has ended, for whatever reason, is
\* not in active_connections.
C12_RegistryIsRunningHandlers ==
    \A c \in Sockets : Registered(c) <=> Running(c)

\* the connections registered when the broadcast started and still when it ended
StayedRegistered == Range(bc.start) \cap Range(active_connections)

\* C13 (as stated): when a broadcast interleaved with connects and disconnects
\* has ended, every connection that stayed registered throughout was sent to
\* exactly once, and received the message exactly once unless its send raised.
C13_BroadcastReachesEveryStayer ==
    bc.pc = "done" =>
        \A c \in StayedRegistered :
            /\ bc.attempts[c] = 1
            /\ bc.delivered[c] = IF c \in bc.raised THEN 0 ELSE 1


====
